---- MODULE Spec2Model ----
(***************************************************************************)
(* Model of the packet-processing core of openvpn3:                        *)
(*   - ReliableRecvTemplate (src/openvpn/reliable/relrecv.hpp) on top of   *)
(*     the MessageWindow primitive (openvpn/common/msgwin.hpp);            *)
(*   - Decrypt (src/openvpn/crypto/decrypt.hpp) with its Buffer, HMAC,     *)
(*     cipher and PacketIDReceive collaborators.                           *)
(***************************************************************************)
EXTENDS Integers, Sequences, FiniteSets, TLC

VARIABLES
    span,       \* window_.span_  : fixed window size given to init(span)
    base,       \* window_ head id: id of the next message to deliver
    slots,      \* window_ slots  : [0..span-1 -> Message], indexed by id mod span
    call,       \* the last call made on the window, with what it returned
    pending,    \* ids returned by next_sequenced() since the last advance()
    retired,    \* ids returned by next_sequenced() before the last advance()
    pc,         \* position of the in-order consumer ("idle" / "got")
    delivered,  \* number of messages the in-order consumer obtained so far
    latest,     \* per id: the last packet received while the id was in-window
    hmac,       \* Decrypt::hmac   : [defined]
    cipher,     \* Decrypt::cipher : [defined, mode]
    pid_recv,   \* Decrypt::pid_recv : [initialized, high, seen]
    buf,        \* the caller's buffer, as decrypt left it
    work,       \* Decrypt::work, the scratch buffer
    dcall,      \* the last decrypt call: its input size, outcome and stages run
    probe,      \* <<p>> once packet p was accepted and kept for resubmission
    resent,     \* TRUE iff the last decrypt call resubmitted the kept packet
    held,       \* ids received while in-window and not yet removed by advance()
    script,     \* calls of the scenario of spec 8 matched so far, -1 once off it
    sent,       \* <<[id, payload, iv]>> of the packet the sender built last
    sender,     \* per id, what the retransmitting sender knows about it
    rt          \* the RouteListMac object and the route commands issued so far

winVars == <<span, base, slots, call>>
monoVars == <<pending, retired>>
consVars == <<pc, delivered, latest>>
decVars == <<hmac, cipher, pid_recv, buf, work, dcall, probe, resent>>
auxVars == <<held, script, sent, sender, rt>>
vars == <<span, base, slots, call, pending, retired, pc, delivered, latest,
          hmac, cipher, pid_recv, buf, work, dcall, probe, resent,
          held, script, sent, sender, rt>>

----------------------------------------------------------------------------
(* Bounds of the model *)

MaxSpan == 2        \* spans 1..MaxSpan are explored
MaxId == 4          \* ids 0..MaxId are received; base stops at MaxId
NPackets == 2       \* distinct packet payloads

MaxPayload == 1     \* longest cleartext payload of a well-formed packet

Ids == 0..MaxId
Packets == 1..NPackets

----------------------------------------------------------------------------
(* ReliableMessageBase / MessageWindow *)

NoPacket == 0

\* A window slot: the Message's id_ and packet members.
Message == [id_ : Ids, packet : Packets \cup {NoPacket}]

\* ReliableMessageBase::defined(): the message holds a packet.
defined(m) == m.packet # NoPacket

\* ReliableMessageBase::erase(): the cleared message.
erased == [id_ |-> 0, packet |-> NoPacket]

\* MessageWindow::in_window(id): base <= id < base + span
in_window(id) == id >= base /\ id < base + span

\* MessageWindow::pre_window(id): id < base
pre_window(id) == id < base

\* MessageWindow::ref_by_id(id): the slot of id, indexed by id mod span
ref_by_id(id) == id % span

\* MessageWindow::head_defined(): the slot at base is defined
head_defined == defined(slots[ref_by_id(base)])

\* MessageWindow::ref_head(): the slot at base
ref_head == slots[ref_by_id(base)]

\* MessageWindow::rm_head_nocheck(): clear the slot at base, ++base; no check
rm_head_nocheck ==
    /\ slots' = [slots EXCEPT ![ref_by_id(base)] = erased]
    /\ base' = base + 1

----------------------------------------------------------------------------
(* ReliableRecvTemplate *)

ACK_TO_SENDER == 1
IN_WINDOW == 2

NoCall == [op |-> "init", id |-> 0, packet |-> NoPacket, flags |-> 0,
           msg |-> erased, ok |-> FALSE, thrown |-> FALSE]

\* ReliableRecvTemplate(span) / init(span): window_.init(0, span)
init(s) ==
    /\ span = s
    /\ base = 0
    /\ slots = [i \in 0..(s - 1) |-> erased]
    /\ call = NoCall

\* receive without "m.id_ = id"
receive_noid(packet, id) ==
    /\ IF in_window(id)
         THEN /\ slots' = [slots EXCEPT ![ref_by_id(id)].packet = packet]
              /\ call' = [NoCall EXCEPT !.op = "receive", !.id = id,
                              !.packet = packet,
                              !.flags = ACK_TO_SENDER + IN_WINDOW]
         ELSE /\ slots' = slots
              /\ call' = [NoCall EXCEPT !.op = "receive", !.id = id,
                              !.packet = packet,
                              !.flags = IF pre_window(id) THEN ACK_TO_SENDER ELSE 0]
    /\ UNCHANGED <<span, base>>

\* receive that stores before testing the window and keeps the first packet
receive_keepfirst(packet, id) ==
    /\ IF in_window(id)
         THEN /\ slots' = IF defined(slots[ref_by_id(id)]) THEN slots
                          ELSE [slots EXCEPT ![ref_by_id(id)] =
                                   [id_ |-> id, packet |-> packet]]
              /\ call' = [NoCall EXCEPT !.op = "receive", !.id = id,
                              !.packet = packet,
                              !.flags = ACK_TO_SENDER + IN_WINDOW]
         ELSE /\ slots' = slots
              /\ call' = [NoCall EXCEPT !.op = "receive", !.id = id,
                              !.packet = packet,
                              !.flags = IF pre_window(id) THEN ACK_TO_SENDER ELSE 0]
    /\ UNCHANGED <<span, base>>

\* receive that tests only the upper edge of the window (id < base + span)
receive_stale(packet, id) ==
    /\ IF id < base + span
         THEN /\ slots' = [slots EXCEPT ![ref_by_id(id)] =
                              [id_ |-> id, packet |-> packet]]
              /\ call' = [NoCall EXCEPT !.op = "receive", !.id = id,
                              !.packet = packet,
                              !.flags = IF pre_window(id) THEN ACK_TO_SENDER
                                        ELSE ACK_TO_SENDER + IN_WINDOW]
         ELSE /\ slots' = slots
              /\ call' = [NoCall EXCEPT !.op = "receive", !.id = id,
                              !.packet = packet, !.flags = 0]
    /\ UNCHANGED <<span, base>>

\* receive that tests only the lower edge of the window (id >= base)
receive_ahead(packet, id) ==
    /\ IF id >= base
         THEN /\ slots' = [slots EXCEPT ![ref_by_id(id)] =
                              [id_ |-> id, packet |-> packet]]
              /\ call' = [NoCall EXCEPT !.op = "receive", !.id = id,
                              !.packet = packet,
                              !.flags = IF in_window(id)
                                        THEN ACK_TO_SENDER + IN_WINDOW ELSE 0]
         ELSE /\ slots' = slots
              /\ call' = [NoCall EXCEPT !.op = "receive", !.id = id,
                              !.packet = packet, !.flags = ACK_TO_SENDER]
    /\ UNCHANGED <<span, base>>

\* receive that acknowledges an id beyond the window without storing it
receive_ackall(packet, id) ==
    /\ IF in_window(id)
         THEN /\ slots' = [slots EXCEPT ![ref_by_id(id)] =
                              [id_ |-> id, packet |-> packet]]
              /\ call' = [NoCall EXCEPT !.op = "receive", !.id = id,
                              !.packet = packet,
                              !.flags = ACK_TO_SENDER + IN_WINDOW]
         ELSE /\ slots' = slots
              /\ call' = [NoCall EXCEPT !.op = "receive", !.id = id,
                              !.packet = packet, !.flags = ACK_TO_SENDER]
    /\ UNCHANGED <<span, base>>

\* receive(packet, id)
receive(packet, id) ==
    /\ IF in_window(id)
         THEN /\ slots' = [slots EXCEPT ![ref_by_id(id)] =
                              [id_ |-> id, packet |-> packet]]
              /\ call' = [NoCall EXCEPT !.op = "receive", !.id = id,
                              !.packet = packet,
                              !.flags = ACK_TO_SENDER + IN_WINDOW]
         ELSE /\ slots' = slots
              /\ call' = [NoCall EXCEPT !.op = "receive", !.id = id,
                              !.packet = packet,
                              !.flags = IF pre_window(id) THEN ACK_TO_SENDER ELSE 0]
    /\ UNCHANGED <<span, base>>

\* ready() that answers for any defined slot instead of the head
ready_any == \E i \in 0..(span - 1) : defined(slots[i])

\* ready()
ready == head_defined

\* a call of ready(), recorded with its answer
call_ready ==
    /\ call' = [NoCall EXCEPT !.op = "ready", !.ok = ready]
    /\ UNCHANGED <<span, base, slots>>

\* next_sequenced(): returns window_.ref_head() unconditionally; the declared
\* rel_next_sequenced_not_ready is never thrown.
next_sequenced ==
    /\ call' = [NoCall EXCEPT !.op = "next_sequenced", !.msg = ref_head,
                    !.thrown = FALSE]
    /\ UNCHANGED <<span, base, slots>>

\* advance that clears the head slot but leaves base where it is
advance_noinc ==
    /\ slots' = [slots EXCEPT ![ref_by_id(base)] = erased]
    /\ base' = base
    /\ call' = [NoCall EXCEPT !.op = "advance"]
    /\ UNCHANGED span

\* advance(): window_.rm_head_nocheck()
advance ==
    /\ rm_head_nocheck
    /\ call' = [NoCall EXCEPT !.op = "advance"]
    /\ UNCHANGED span

----------------------------------------------------------------------------
(* Buffer, HMACContext, CipherContext, PacketIDReceive *)

\* Bytes are one bit wide in the model.
Byte == {0, 1}

HmacSize == 1       \* hmac.output_size()
IvLength == 1       \* cipher.iv_length()
PidSize == 2        \* bytes of a short-form packet id
PidBacktrack == 2   \* ids below the high-water mark the window still tracks

\* All byte sequences of length at most n
SeqsUpTo(n) == UNION {[1..k -> Byte] : k \in 0..n}

RECURSIVE Sum(_)
Sum(b) == IF b = <<>> THEN 0 ELSE Head(b) + Sum(Tail(b))

\* Buffer: the first n bytes, and what is left after consuming them
Prefix(b, n) == SubSeq(b, 1, n)
Consume(b, n) == SubSeq(b, n + 1, Len(b))

\* Buffer::reset_size()
reset_size(b) == <<>>

\* HMACContext::hmac(out, size, data, len): the tag of the data
hmac_tag(data) == <<(1 + Sum(data)) % 2>>

\* memcmp_secure(a, b, n): nonzero iff the tags differ
memcmp_secure(a, b) == a # b

\* CipherContext::decrypt(iv, out, max, in, len): the bytes produced; the
\* empty sequence (0 bytes) on empty input or bad padding.
cipher_decrypt(iv, data) ==
    IF data = <<>> THEN <<>>
    ELSE LET plain == [i \in 1..Len(data) |-> (data[i] + iv[1]) % 2]
         IN  IF plain[Len(plain)] # 1 THEN <<>>
             ELSE SubSeq(plain, 1, Len(plain) - 1)

\* PacketIDReceive::read_next(buf): the id at the head of the buffer
read_next(b) == 2 * b[1] + b[2]

\* PacketIDReceive::test(pid, now), short form
pid_test(p, id) ==
    IF id >= p.high THEN TRUE
    ELSE IF id >= p.high - PidBacktrack THEN id \notin p.seen
    ELSE FALSE

\* PacketIDReceive::add(pid, now), short form
pid_add(p, id) ==
    LET h == IF id >= p.high THEN id + 1 ELSE p.high
    IN  [p EXCEPT !.high = h,
                  !.seen = {x \in p.seen \cup {id} : x >= h - PidBacktrack}]

----------------------------------------------------------------------------
(* Decrypt *)

\* verify_packet_id that remembers the id before testing it
verify_packet_id_addfirst(b, p) ==
    IF p.initialized
    THEN IF Len(b) < PidSize
         THEN [ok |-> FALSE, thrown |-> TRUE, buf |-> b, pid |-> p,
               trace |-> <<>>]
         ELSE LET id == read_next(b)
              IN  [ok |-> pid_test(p, id), thrown |-> FALSE,
                   buf |-> Consume(b, PidSize), pid |-> pid_add(p, id),
                   trace |-> <<<<"test", id>>, <<"add", id>>>>]
    ELSE [ok |-> TRUE, thrown |-> FALSE, buf |-> b, pid |-> p, trace |-> <<>>]

\* verify_packet_id that tests the id but never remembers it
verify_packet_id_noadd(b, p) ==
    IF p.initialized
    THEN IF Len(b) < PidSize
         THEN [ok |-> FALSE, thrown |-> TRUE, buf |-> b, pid |-> p,
               trace |-> <<>>]
         ELSE LET id == read_next(b)
              IN  [ok |-> pid_test(p, id), thrown |-> FALSE,
                   buf |-> Consume(b, PidSize), pid |-> p,
                   trace |-> <<<<"test", id>>>>]
    ELSE [ok |-> TRUE, thrown |-> FALSE, buf |-> b, pid |-> p, trace |-> <<>>]

\* verify_packet_id(buf, now): [ok, thrown, buf, pid, trace]
verify_packet_id(b, p) ==
    IF p.initialized
    THEN IF Len(b) < PidSize
         THEN [ok |-> FALSE, thrown |-> TRUE, buf |-> b, pid |-> p,
               trace |-> <<>>]
         ELSE LET id == read_next(b)
              IN  IF pid_test(p, id)
                  THEN [ok |-> TRUE, thrown |-> FALSE,
                        buf |-> Consume(b, PidSize), pid |-> pid_add(p, id),
                        trace |-> <<<<"test", id>>, <<"add", id>>>>]
                  ELSE [ok |-> FALSE, thrown |-> FALSE,
                        buf |-> Consume(b, PidSize), pid |-> p,
                        trace |-> <<<<"test", id>>>>]
    ELSE [ok |-> TRUE, thrown |-> FALSE, buf |-> b, pid |-> p, trace |-> <<>>]

\* a failure return that forgets buf.reset_size()
fail_noreset(err, b, w, p, t) ==
    [outcome |-> err, buf |-> b, work |-> w, pid |-> p, trace |-> t]

\* buf.reset_size(); return Error::<err>
fail(err, b, w, p, t) ==
    [outcome |-> err, buf |-> reset_size(b), work |-> w, pid |-> p, trace |-> t]

\* a fault thrown out of decrypt: the buffers stay as they are at the throw
throw(what, b, w, p, t) ==
    [outcome |-> what, buf |-> b, work |-> w, pid |-> p, trace |-> t]

\* the success path after the cipher without buf.swap(work)
cipher_verified_noswap(v, c, t) ==
    IF v.thrown THEN throw("buffer_exception", c, v.buf, v.pid, t \o v.trace)
    ELSE IF ~v.ok THEN fail("REPLAY_ERROR", c, v.buf, v.pid, t \o v.trace)
    ELSE [outcome |-> "SUCCESS", buf |-> c, work |-> v.buf, pid |-> v.pid,
          trace |-> t \o v.trace]

\* decrypt lines 77-89: v is what verify_packet_id(work, now) gave, c the
\* ciphertext left in buf, t the stages run before it.
cipher_verified(v, c, t) ==
    IF v.thrown THEN throw("buffer_exception", c, v.buf, v.pid, t \o v.trace)
    ELSE IF ~v.ok THEN fail("REPLAY_ERROR", c, v.buf, v.pid, t \o v.trace)
    ELSE [outcome |-> "SUCCESS", buf |-> v.buf, work |-> c, pid |-> v.pid,
          trace |-> t \o v.trace]

\* decrypt lines 93-97: v is what verify_packet_id(buf, now) gave.
plain_verified(v, w, t) ==
    IF v.thrown THEN throw("buffer_exception", v.buf, w, v.pid, t \o v.trace)
    ELSE IF ~v.ok THEN fail("REPLAY_ERROR", v.buf, w, v.pid, t \o v.trace)
    ELSE [outcome |-> "SUCCESS", buf |-> v.buf, work |-> w, pid |-> v.pid,
          trace |-> t \o v.trace]

\* the cipher stage without the cipher-mode test: every mode handled as CBC
cipher_done_anymode(c, out, p, t) ==
    IF Len(out) = 0 THEN fail("DECRYPT_ERROR", c, <<>>, p, t)
    ELSE cipher_verified(verify_packet_id(out, p), c, t)

\* decrypt lines 66-89: out is what cipher.decrypt wrote to work from the
\* ciphertext c.
cipher_done(c, out, p, t) ==
    IF Len(out) = 0 THEN fail("DECRYPT_ERROR", c, <<>>, p, t)
    ELSE IF cipher.mode = "CIPH_CBC_MODE"
    THEN cipher_verified(verify_packet_id(out, p), c, t)
    ELSE throw("unsupported_cipher_mode", c, out, p, t)

\* decrypt lines 52-98, after the HMAC stage: b is the buffer behind the tag,
\* w the work buffer, p the anti-replay window, t the stages run so far.
decrypt_payload(b, w, p, t) ==
    IF cipher.defined
    THEN IF Len(b) < IvLength
         THEN throw("buffer_exception", b, w, p, t)
         ELSE cipher_done(Consume(b, IvLength),
                          cipher_decrypt(Prefix(b, IvLength),
                                         Consume(b, IvLength)),
                          p,
                          Append(t, <<"cipher",
                                      Len(cipher_decrypt(Prefix(b, IvLength),
                                                         Consume(b, IvLength)))>>))
    ELSE plain_verified(verify_packet_id(b, p), w, t)

\* the HMAC stage with the comparison looked at only after the later stages ran
hmac_checked_late(packet_hmac, rest, w, p) ==
    IF memcmp_secure(hmac_tag(rest), packet_hmac)
    THEN fail("HMAC_ERROR", rest, w, p,
              decrypt_payload(rest, w, p, <<<<"hmac", 0>>>>).trace)
    ELSE decrypt_payload(rest, w, p, <<<<"hmac", 0>>>>)

\* decrypt lines 38-50: the tag packet_hmac read off the buffer is compared
\* with the tag of the rest.
hmac_checked(packet_hmac, rest, w, p) ==
    IF memcmp_secure(hmac_tag(rest), packet_hmac)
    THEN fail("HMAC_ERROR", rest, w, p, <<<<"hmac", 0>>>>)
    ELSE decrypt_payload(rest, w, p, <<<<"hmac", 0>>>>)

\* decrypt without the null-packet test of lines 34-36
decrypt_result_noskip(b, w, p) ==
    IF hmac.defined
    THEN IF Len(b) < HmacSize
         THEN throw("buffer_exception", b, w, p, <<>>)
         ELSE hmac_checked(Prefix(b, HmacSize), Consume(b, HmacSize), w, p)
    ELSE decrypt_payload(b, w, p, <<>>)

\* decrypt(buf, now) on input b with work buffer w and anti-replay window p:
\* [outcome, buf, work, pid, trace]; a trace entry names a collaborator that
\* was invoked, with the bytes the cipher produced or the id tested / added.
decrypt_result(b, w, p) ==
    IF Len(b) = 0
    THEN [outcome |-> "SUCCESS", buf |-> b, work |-> w, pid |-> p,
          trace |-> <<>>]
    ELSE IF hmac.defined
    THEN IF Len(b) < HmacSize
         THEN throw("buffer_exception", b, w, p, <<>>)
         ELSE hmac_checked(Prefix(b, HmacSize), Consume(b, HmacSize), w, p)
    ELSE decrypt_payload(b, w, p, <<>>)

\* One call of decrypt on the session state
decrypt(input) ==
    \E r \in {decrypt_result(input, work, pid_recv)} :
        /\ buf' = r.buf
        /\ work' = r.work
        /\ pid_recv' = r.pid
        /\ dcall' = [size |-> Len(input), outcome |-> r.outcome,
                     trace |-> r.trace]
        /\ UNCHANGED <<hmac, cipher>>

----------------------------------------------------------------------------
(* Callers of the window *)

\* The callers' bookkeeping before any call
\* No RouteListMac object
NoRoute ==
    [life |-> "none", enabled |-> FALSE, stopped |-> FALSE,
     did_redirect_gw |-> FALSE, server_addr |-> "", route_gateway |-> "",
     local_gateway |-> "", cmds |-> <<>>, stops |-> 0]

NoCalls ==
    /\ pending = {}
    /\ retired = {}
    /\ pc = "idle"
    /\ delivered = 0
    /\ latest = [i \in Ids |-> NoPacket]
    /\ buf = <<>>
    /\ work = <<>>
    /\ dcall = [size |-> 0, outcome |-> "none", trace |-> <<>>]
    /\ probe = <<>>
    /\ resent = FALSE
    /\ held = {}
    /\ script = 0
    /\ sent = <<>>
    /\ sender = [i \in Ids |-> "new"]
    /\ rt = NoRoute

\* A Decrypt object with nothing configured
NoDecrypt ==
    /\ hmac = [defined |-> FALSE]
    /\ cipher = [defined |-> FALSE, mode |-> "CIPH_CBC_MODE"]
    /\ pid_recv = [initialized |-> FALSE, high |-> 0, seen |-> {}]

Init ==
    /\ \E s \in 1..MaxSpan : init(s)
    /\ NoDecrypt
    /\ NoCalls

\* Any caller: receive, ready, next_sequenced and advance in any order.
DoReceive ==
    /\ \E p \in Packets, id \in Ids :
          /\ receive(p, id)
          /\ held' = IF id >= base /\ id < base + span
                      THEN held \cup {id} ELSE held
    /\ UNCHANGED <<monoVars, consVars, decVars, script, sent, sender, rt>>

DoReady ==
    /\ call_ready
    /\ UNCHANGED <<monoVars, consVars, decVars, auxVars>>

DoNextSequenced ==
    /\ next_sequenced
    /\ pending' = IF defined(call'.msg) THEN pending \cup {call'.msg.id_}
                  ELSE pending
    /\ UNCHANGED <<retired, consVars, decVars, auxVars>>

DoAdvance ==
    /\ base < MaxId
    /\ advance
    /\ retired' = retired \cup pending
    /\ pending' = {}
    /\ held' = held \ {base}
    /\ UNCHANGED <<consVars, decVars, script, sent, sender, rt>>

Next == DoReceive \/ DoReady \/ DoNextSequenced \/ DoAdvance

Spec == Init /\ [][Next]_vars

\* The in-order consumer: next_sequenced() and then advance(), only when
\* ready() is true, interleaved with arbitrary receive calls.
ConsumerReceive ==
    /\ \E p \in Packets, id \in Ids :
          /\ receive(p, id)
          /\ latest' = IF id >= base /\ id < base + span
                        THEN [latest EXCEPT ![id] = p] ELSE latest
    /\ UNCHANGED <<monoVars, pc, delivered, decVars, auxVars>>

ConsumerNext ==
    /\ pc = "idle"
    /\ ready
    /\ next_sequenced
    /\ pc' = "got"
    /\ delivered' = delivered + 1
    /\ UNCHANGED <<monoVars, latest, decVars, auxVars>>

ConsumerAdvance ==
    /\ pc = "got"
    /\ base < MaxId
    /\ advance
    /\ pc' = "idle"
    /\ UNCHANGED <<monoVars, delivered, latest, decVars, auxVars>>

NextConsumer == ConsumerReceive \/ ConsumerNext \/ ConsumerAdvance

SpecConsumer == Init /\ [][NextConsumer]_vars

----------------------------------------------------------------------------
(* Callers of decrypt *)

\* Every configuration of a Decrypt session: MAC on/off, cipher on/off with
\* either mode, anti-replay window initialized or not.
InitDecrypt ==
    /\ init(1)
    /\ NoCalls
    /\ hmac \in [defined : BOOLEAN]
    /\ cipher \in [defined : BOOLEAN, mode : {"CIPH_CBC_MODE", "OTHER_MODE"}]
    /\ pid_recv \in [initialized : BOOLEAN, high : {0}, seen : {{}}]

\* Bytes a well-formed packet of this session has around its payload
Overhead ==
    (IF hmac.defined THEN HmacSize ELSE 0)
    + (IF cipher.defined THEN IvLength + 1 ELSE 0)
    + PidSize

\* Any bytes off the wire, up to the length of a well-formed packet
Inputs == SeqsUpTo(Overhead + MaxPayload)

DoDecrypt ==
    /\ \E input \in Inputs : decrypt(input)
    /\ UNCHANGED <<winVars, monoVars, consVars, probe, resent, auxVars>>

NextDecrypt == DoDecrypt

SpecDecrypt == InitDecrypt /\ [][NextDecrypt]_vars

\* Packet ids a short-form id of PidSize bytes can carry
PacketIds == 0..3

\* The sender's side (Encrypt): the wire bytes of a well-formed packet with
\* the given id, payload and IV for this session's configuration.
valid_packet(id, payload, iv) ==
    LET plain == <<id \div 2, id % 2>> \o payload
        padded == plain \o <<1>>
        body == IF cipher.defined
                THEN <<iv>> \o [i \in 1..Len(padded) |-> (padded[i] + 2 - iv) % 2]
                ELSE plain
    IN  IF hmac.defined THEN hmac_tag(body) \o body ELSE body

\* A sender that submits well-formed packets, may keep one that was accepted,
\* and submits the kept packet again.
SubmitValid ==
    /\ \E id \in PacketIds, payload \in SeqsUpTo(MaxPayload), iv \in Byte,
          keep \in BOOLEAN :
          LET pkt == valid_packet(id, payload, iv)
          IN  /\ decrypt(pkt)
              /\ probe' = IF keep /\ dcall'.outcome = "SUCCESS"
                           THEN <<pkt>> ELSE probe
    /\ resent' = FALSE
    /\ UNCHANGED <<winVars, monoVars, consVars, auxVars>>

Resubmit ==
    /\ probe # <<>>
    /\ decrypt(probe[1])
    /\ resent' = TRUE
    /\ UNCHANGED <<winVars, monoVars, consVars, probe, auxVars>>

NextReplay == SubmitValid \/ Resubmit

SpecReplay == InitDecrypt /\ [][NextReplay]_vars

----------------------------------------------------------------------------
(* Claims about the reliable receive window *)

\* C1: in-order, exactly-once delivery. With a consumer that calls
\* next_sequenced() and then advance() only when ready() is true, the k-th
\* message obtained (k = 0, 1, ...) is defined, carries id k and holds the
\* packet last received for id k; base follows the number of deliveries, so
\* no id is delivered twice and none is skipped.
C1_InOrderExactlyOnce ==
    /\ [](pc = "idle" => base = delivered)
    /\ [](pc = "got" => (base = delivered - 1 /\ ready))
    /\ [][(pc = "idle" /\ pc' = "got") =>
            /\ defined(call'.msg)
            /\ call'.msg.id_ = delivered
            /\ call'.msg.packet = latest[delivered]
            /\ latest[delivered] # NoPacket]_vars

\* C1 witness: the consumer holds message 2 while message 3 is already
\* buffered (it arrived before it could be delivered).
C1_Witness ==
    /\ pc = "got" /\ delivered = 3 /\ call.msg.id_ = 2
    /\ span >= 2 /\ defined(slots[(base + 1) % span])

\* C2: window monotonicity. base starts at 0, never decreases, is unchanged
\* by receive/ready/next_sequenced and grows by exactly one per advance();
\* next_sequenced() never returns a message that a next_sequenced() made
\* before an earlier advance() returned.
C2_WindowMonotonic ==
    /\ [](call.op = "init" => base = 0)
    /\ [](call.op = "next_sequenced" /\ defined(call.msg)
            => call.msg.id_ \notin retired)
    /\ [][/\ base' >= base
          /\ call'.op \in {"receive", "ready", "next_sequenced"} => base' = base
          /\ call'.op = "advance" => base' = base + 1]_vars

\* C2 witness: a message is returned after an advance that retired another.
C2_Witness ==
    /\ call.op = "next_sequenced" /\ defined(call.msg)
    /\ retired # {} /\ base >= 2

\* C3 as stated: in every step in which base increases, the slot at the old
\* base was defined immediately before the step.
C3_Original ==
    [][base' > base => defined(slots[base % span])]_vars

\* C3 as amended: in every step in which base increases through an advance()
\* made while ready() is true, base grows by one and the slot at the old base
\* was defined and held the message whose id is the old base.
C3_AdvanceWhenReady ==
    [][(base' > base /\ ready) =>
          /\ base' = base + 1
          /\ defined(slots[base % span])
          /\ slots[base % span].id_ = base]_vars

\* C3 witness: base has advanced past a delivered message, with the next one
\* present at the new base.
C3_Witness ==
    /\ call.op = "advance" /\ base >= 2 /\ retired # {}
    /\ defined(slots[base % span])

\* C7: in-window receive. For base <= id < base+span, receive(packet, id)
\* returns exactly ACK_TO_SENDER|IN_WINDOW, leaves the slot of id holding that
\* id and packet whatever it held before (so a repeated receive gives the
\* same state), and changes neither base nor any other slot.
C7_InWindowReceive ==
    [][(call'.op = "receive" /\ base <= call'.id /\ call'.id < base + span) =>
          /\ call'.flags = ACK_TO_SENDER + IN_WINDOW
          /\ slots' = [slots EXCEPT ![call'.id % span] =
                          [id_ |-> call'.id, packet |-> call'.packet]]
          /\ defined(slots'[call'.id % span])
          /\ base' = base
          /\ span' = span]_vars

\* C7 witness: an in-window receive ahead of base left its packet stored.
C7_Witness ==
    /\ call.op = "receive" /\ call.id > base /\ call.id < base + span
    /\ call.flags = ACK_TO_SENDER + IN_WINDOW
    /\ slots[call.id % span] = [id_ |-> call.id, packet |-> call.packet]

\* C8: stale ack. receive(packet, id) with id < base returns exactly
\* ACK_TO_SENDER and stores nothing: base and every slot are unchanged, and no
\* slot ever holds an id below base.
C8_StaleAck ==
    /\ [](\A i \in 0..(span - 1) : defined(slots[i]) => slots[i].id_ >= base)
    /\ [][(call'.op = "receive" /\ call'.id < base) =>
            /\ call'.flags = ACK_TO_SENDER
            /\ base' = base
            /\ slots' = slots]_vars

\* C8 witness: a consumed id was received again and only acknowledged.
C8_Witness ==
    /\ call.op = "receive" /\ call.id < base /\ call.flags = ACK_TO_SENDER
    /\ call.id \in retired

\* C9: backstop drop. receive(packet, id) with id >= base+span returns no
\* flags and changes neither base nor any slot, in particular not the slot of
\* the in-window id with the same index id mod span.
C9_BackstopDrop ==
    [][(call'.op = "receive" /\ call'.id >= base + span) =>
          /\ call'.flags = 0
          /\ base' = base
          /\ slots' = slots]_vars

\* C9 witness: a dropped id whose index is occupied by an in-window message.
C9_Witness ==
    /\ call.op = "receive" /\ call.id >= base + span /\ call.flags = 0
    /\ defined(slots[call.id % span])
    /\ slots[call.id % span].id_ # call.id

\* C10 as stated: next_sequenced() called while ready() is false raises
\* rel_next_sequenced_not_ready and returns no message reference.
C10_NotReadyIsFatal ==
    (call.op = "next_sequenced" /\ ~ready) => call.thrown

----------------------------------------------------------------------------
(* Claims about the decrypt pipeline *)

\* Ids the last decrypt call passed to the given anti-replay operation
TraceIds(kind) ==
    {dcall.trace[i][2] :
        i \in {j \in 1..Len(dcall.trace) : dcall.trace[j][1] = kind}}

\* C4: whenever decrypt returns HMAC_ERROR, DECRYPT_ERROR or REPLAY_ERROR
\* (cipher or no-cipher branch), the caller's buffer is empty on return.
C4_FailureEmptiesBuffer ==
    dcall.outcome \in {"HMAC_ERROR", "DECRYPT_ERROR", "REPLAY_ERROR"}
        => Len(buf) = 0

\* C4 witness: a replayed id rejected behind MAC and cipher, on a packet that
\* carried payload behind the id.
C4_Witness ==
    /\ dcall.outcome = "REPLAY_ERROR" /\ hmac.defined /\ cipher.defined
    /\ dcall.size = Overhead + MaxPayload /\ Len(buf) = 0

\* C5: the anti-replay window changes only on acceptance. Every decrypt call
\* that does not return SUCCESS (HMAC_ERROR, DECRYPT_ERROR, REPLAY_ERROR or a
\* thrown fault) leaves pid_recv as it was, and add() is invoked only right
\* after test() accepted the same id in that call.
C5_ReplayWindowOnlyOnAccept ==
    [][/\ dcall'.outcome # "SUCCESS" => pid_recv' = pid_recv
       /\ \A i \in 1..Len(dcall'.trace) :
            dcall'.trace[i][1] = "add" =>
                /\ i > 1
                /\ dcall'.trace[i - 1] = <<"test", dcall'.trace[i][2]>>
                /\ pid_test(pid_recv, dcall'.trace[i][2])
                /\ dcall'.outcome = "SUCCESS"]_vars

\* C5 witness: a rejected id left a window that already holds accepted ids.
C5_Witness ==
    /\ dcall.outcome = "REPLAY_ERROR" /\ pid_recv.seen # {}
    /\ TraceIds("test") # {} /\ TraceIds("add") = {}

\* C6 as stated: for every pipeline configuration, a packet that was accepted
\* (SUCCESS) is rejected with REPLAY_ERROR when submitted again.
C6_Original ==
    resent => dcall.outcome = "REPLAY_ERROR"

\* C6 as amended: when the anti-replay window is initialized, a well-formed
\* packet with an id at or above the high-water mark is accepted (SUCCESS)
\* and the same packet submitted again is rejected with REPLAY_ERROR, with
\* MAC on or off and cipher on (supported mode) or off.
C6_ReplayRejected ==
    /\ (resent /\ pid_recv.initialized) => dcall.outcome = "REPLAY_ERROR"
    /\ (dcall.outcome # "none" /\ ~resent
          /\ (cipher.defined => cipher.mode = "CIPH_CBC_MODE")) =>
            \/ dcall.outcome = "SUCCESS"
            \/ /\ dcall.outcome = "REPLAY_ERROR"
               /\ pid_recv.initialized
               /\ \A id \in TraceIds("test") : id < pid_recv.high

\* C6 witness: a kept packet was resubmitted through MAC, cipher and an
\* initialized anti-replay window, and rejected.
C6_Witness ==
    /\ resent /\ pid_recv.initialized /\ hmac.defined /\ cipher.defined
    /\ dcall.outcome = "REPLAY_ERROR"

----------------------------------------------------------------------------
(* Further claims about the reliable receive window *)

\* C11: bounded buffering. After any sequence of receive and advance calls
\* at most span slots are defined, and every defined slot holds a message
\* whose id lies in [base, base+span) at the index id mod span; ids received
\* ahead of the window never add to what is held.
C11_BoundedBuffering ==
    /\ Cardinality({i \in DOMAIN slots : defined(slots[i])}) <= span
    /\ DOMAIN slots = 0..(span - 1)
    /\ \A i \in DOMAIN slots :
          defined(slots[i]) =>
              /\ slots[i].id_ >= base
              /\ slots[i].id_ < base + span
              /\ slots[i].id_ % span = i

\* C11 witness: the window is full and a far-ahead id has just been dropped.
C11_Witness ==
    /\ span >= 2 /\ base >= 1
    /\ \A i \in DOMAIN slots : defined(slots[i])
    /\ call.op = "receive" /\ call.id >= base + span /\ call.flags = 0

----------------------------------------------------------------------------
(* Further claims about the decrypt pipeline *)

\* Stages the last decrypt call ran
Ran(kind) == \E i \in 1..Len(dcall.trace) : dcall.trace[i][1] = kind

\* Bytes the cipher produced in the last decrypt call (when it ran)
CipherBytes ==
    {dcall.trace[i][2] :
        i \in {j \in 1..Len(dcall.trace) : dcall.trace[j][1] = "cipher"}}

Outcomes == {"SUCCESS", "HMAC_ERROR", "DECRYPT_ERROR", "REPLAY_ERROR"}

\* C12 as stated: for every non-empty input buffer (supported cipher mode),
\* however short, decrypt returns SUCCESS, HMAC_ERROR, DECRYPT_ERROR or
\* REPLAY_ERROR, with the buffer empty on non-SUCCESS, and raises nothing.
C12_NoFaultEscapes ==
    (dcall.size > 0 /\ (cipher.defined => cipher.mode = "CIPH_CBC_MODE")) =>
        /\ dcall.outcome \in Outcomes
        /\ dcall.outcome # "SUCCESS" => Len(buf) = 0

\* C13 as stated: with a cipher of an unsupported mode configured, decrypt of
\* any non-empty packet that passes the MAC check (and is long enough to be
\* read) raises unsupported_cipher_mode and returns no per-packet outcome.
C13_Original ==
    (cipher.defined /\ cipher.mode # "CIPH_CBC_MODE" /\ dcall.size > 0
        /\ dcall.outcome \notin {"none", "HMAC_ERROR", "buffer_exception"})
    => dcall.outcome = "unsupported_cipher_mode"

\* C13 as amended: with a cipher of an unsupported mode configured, decrypt
\* of a non-empty packet never returns SUCCESS or REPLAY_ERROR and never
\* consults the anti-replay window; it raises unsupported_cipher_mode exactly
\* when the cipher ran and produced at least one byte, and returns
\* DECRYPT_ERROR exactly when the cipher ran and produced zero bytes.
C13_UnsupportedModeFatal ==
    (cipher.defined /\ cipher.mode # "CIPH_CBC_MODE" /\ dcall.size > 0
        /\ dcall.outcome # "none")
    => /\ dcall.outcome \notin {"SUCCESS", "REPLAY_ERROR"}
       /\ ~Ran("test") /\ ~Ran("add")
       /\ dcall.outcome = "unsupported_cipher_mode"
            <=> (Ran("cipher") /\ 0 \notin CipherBytes)
       /\ dcall.outcome = "DECRYPT_ERROR"
            <=> (Ran("cipher") /\ 0 \in CipherBytes)

\* C13 witness: behind a valid MAC the cipher produced bytes and the
\* unsupported mode was raised, with an initialized anti-replay window.
C13_Witness ==
    /\ cipher.defined /\ cipher.mode # "CIPH_CBC_MODE" /\ hmac.defined
    /\ pid_recv.initialized
    /\ dcall.outcome = "unsupported_cipher_mode" /\ Len(work) >= PidSize

\* C14: empty-input no-op. decrypt on a buffer of size 0 returns SUCCESS in
\* every configuration, leaves the buffer empty, invokes neither MAC, cipher
\* nor anti-replay window, and leaves work buffer and anti-replay state as
\* they were.
C14_EmptyInputNoOp ==
    [][(dcall'.size = 0) =>
          /\ dcall'.outcome = "SUCCESS"
          /\ buf' = <<>>
          /\ dcall'.trace = <<>>
          /\ work' = work
          /\ pid_recv' = pid_recv]_vars

\* C14 witness: a null packet on a session with MAC, cipher and anti-replay
\* window, whose work buffer and window hold state from earlier packets.
C14_Witness ==
    /\ dcall.size = 0 /\ dcall.outcome = "SUCCESS" /\ buf = <<>>
    /\ hmac.defined /\ cipher.defined /\ pid_recv.initialized
    /\ work # <<>> /\ pid_recv.seen # {}

\* Position of a collaborator in the pipeline
StageRank(kind) ==
    CASE kind = "hmac" -> 1
      [] kind = "cipher" -> 2
      [] kind = "test" -> 3
      [] kind = "add" -> 4

\* C18: stage ordering within one decrypt call. The MAC check runs before the
\* cipher and the cipher before the anti-replay check; every configured stage
\* ahead of one that ran has run; the cipher is not invoked after a failed MAC
\* comparison, test/add are not invoked after a failed MAC comparison or a
\* cipher that produced zero bytes, and a call that fails ends at the failing
\* stage with that stage's outcome.
C18_StageOrdering ==
    LET t == dcall.trace
    IN  /\ \A i, j \in 1..Len(t) :
              i < j => StageRank(t[i][1]) < StageRank(t[j][1])
        /\ (Ran("cipher") /\ hmac.defined) => Ran("hmac")
        /\ Ran("test") => /\ hmac.defined => Ran("hmac")
                          /\ cipher.defined =>
                                (Ran("cipher") /\ 0 \notin CipherBytes)
        /\ Ran("add") => Ran("test")
        /\ dcall.outcome = "HMAC_ERROR" => t = <<<<"hmac", 0>>>>
        /\ dcall.outcome = "DECRYPT_ERROR" =>
              (t[Len(t)] = <<"cipher", 0>> /\ ~Ran("test") /\ ~Ran("add"))
        /\ dcall.outcome = "REPLAY_ERROR" =>
              (t[Len(t)][1] = "test" /\ ~Ran("add"))
        /\ (dcall.outcome = "SUCCESS" /\ dcall.size > 0) =>
              /\ hmac.defined => Ran("hmac")
              /\ cipher.defined => Ran("cipher")
              /\ pid_recv.initialized => Ran("add")

\* C18 witness: a packet went through MAC, cipher, test and add in that order.
C18_Witness ==
    /\ dcall.outcome = "SUCCESS"
    /\ Len(dcall.trace) = 4
    /\ dcall.trace[1][1] = "hmac" /\ dcall.trace[2][1] = "cipher"
    /\ dcall.trace[3][1] = "test" /\ dcall.trace[4][1] = "add"


\* C15: ready() is true exactly when some receive call since init carried the
\* id that is now base while that id was in-window and no advance() has
\* removed that message since (held); the same holds of every slot of the
\* window; and a ready() call reports that and changes nothing of the window.
C15_ReadyIffHeadHeld ==
    /\ [](ready <=> base \in held)
    /\ [](\A id \in base..(base + span - 1) :
             defined(slots[ref_by_id(id)]) <=> id \in held)
    /\ [][call'.op = "ready" =>
             /\ call'.ok = (base \in held)
             /\ UNCHANGED <<span, base, slots, held>>]_vars

\* C15 witness: ready() answered true on a head other than id 0, after an
\* advance() had removed a message that next_sequenced() had returned.
C15_Witness ==
    /\ call.op = "ready"
    /\ call.ok
    /\ base >= 1
    /\ retired # {}
    /\ base \in held


----------------------------------------------------------------------------
(* The scenario of spec 8: a window of span 4 at base 0, packets P0, P1, P2 *)

\* P_i, the packet the sender numbered i
ScenarioPacket(i) == i + 1

\* The calls of the scenario in order, ready() calls aside:
\* receive(P0,0), receive(P2,2), next_sequenced(), advance(), receive(P1,1),
\* next_sequenced(), advance(), next_sequenced()
ScenarioCalls ==
    <<[op |-> "receive", id |-> 0], [op |-> "receive", id |-> 2],
      [op |-> "next_sequenced", id |-> 0], [op |-> "advance", id |-> 0],
      [op |-> "receive", id |-> 1], [op |-> "next_sequenced", id |-> 0],
      [op |-> "advance", id |-> 0], [op |-> "next_sequenced", id |-> 0]>>

\* script after one more call: one further if the call is the scenario's next
\* call, off the scenario (-1) otherwise
Follow(op, id) ==
    IF script >= 0 /\ script < Len(ScenarioCalls)
       /\ ScenarioCalls[script + 1] = [op |-> op, id |-> id]
    THEN script + 1 ELSE -1

InitScenario ==
    /\ init(4)
    /\ NoDecrypt
    /\ NoCalls

ScenarioReceive ==
    /\ \E id \in Ids :
          /\ receive(ScenarioPacket(id), id)
          /\ script' = Follow("receive", id)
    /\ UNCHANGED <<monoVars, consVars, decVars, held, sent, sender, rt>>

ScenarioReady ==
    /\ call_ready
    /\ UNCHANGED <<monoVars, consVars, decVars, auxVars>>

ScenarioNextSequenced ==
    /\ next_sequenced
    /\ script' = Follow("next_sequenced", 0)
    /\ UNCHANGED <<monoVars, consVars, decVars, held, sent, sender, rt>>

ScenarioAdvance ==
    /\ base < MaxId
    /\ advance
    /\ script' = Follow("advance", 0)
    /\ UNCHANGED <<monoVars, consVars, decVars, held, sent, sender, rt>>

NextScenario ==
    ScenarioReceive \/ ScenarioReady \/ ScenarioNextSequenced \/ ScenarioAdvance

SpecScenario == InitScenario /\ [][NextScenario]_vars

\* C16: in the scenario (span 4, base 0), receive(P0,0) returns
\* ACK_TO_SENDER|IN_WINDOW and ready() is then true; receive(P2,2) returns
\* ACK_TO_SENDER|IN_WINDOW; next_sequenced() returns P0; advance() makes base
\* 1 and ready() false; after receive(P1,1) ready() is true and
\* next_sequenced() returns P1; after the second advance() base is 2, ready()
\* is true and next_sequenced() returns P2.
C16_Scenario ==
    /\ (script \in {1, 2, 5} /\ call.op = "receive") =>
            call.flags = ACK_TO_SENDER + IN_WINDOW
    /\ script \in {1, 2, 3, 5, 6, 7, 8} =>
            (ready /\ (call.op = "ready" => call.ok))
    /\ script = 4 => (~ready /\ (call.op = "ready" => ~call.ok))
    /\ script \in 0..3 => base = 0
    /\ script \in 4..6 => base = 1
    /\ script \in 7..8 => base = 2
    /\ (script = 3 /\ call.op = "next_sequenced") =>
            call.msg = [id_ |-> 0, packet |-> ScenarioPacket(0)]
    /\ (script = 6 /\ call.op = "next_sequenced") =>
            call.msg = [id_ |-> 1, packet |-> ScenarioPacket(1)]
    /\ (script = 8 /\ call.op = "next_sequenced") =>
            call.msg = [id_ |-> 2, packet |-> ScenarioPacket(2)]

\* C16 witness: the whole scenario was played and its last next_sequenced()
\* returned P2.
C16_Witness ==
    /\ script = Len(ScenarioCalls)
    /\ call.op = "next_sequenced"
    /\ call.msg.packet = ScenarioPacket(2)
    /\ base = 2


----------------------------------------------------------------------------
(* Round trip: the sender's well-formed packets through decrypt *)

\* The sender builds a packet from an id, a payload and an IV; the receiver
\* decrypts it.
SendPacket ==
    /\ \E id \in PacketIds, payload \in SeqsUpTo(MaxPayload), iv \in Byte :
          /\ decrypt(valid_packet(id, payload, iv))
          /\ sent' = <<[id |-> id, payload |-> payload, iv |-> iv]>>
    /\ UNCHANGED <<winVars, monoVars, consVars, probe, resent,
                   held, script, sender, rt>>

NextRoundTrip == SendPacket

SpecRoundTrip == InitDecrypt /\ [][NextRoundTrip]_vars

\* The packet-identifier prefix of the packet sent last
SentPid == <<sent[1].id \div 2, sent[1].id % 2>>

\* The ciphertext of the packet sent last: its bytes behind the tag and the IV
SentCiphertext ==
    LET pkt == valid_packet(sent[1].id, sent[1].payload, sent[1].iv)
        body == IF hmac.defined THEN Consume(pkt, HmacSize) ELSE pkt
    IN  Consume(body, IvLength)

\* C17 as stated: on every SUCCESS for a non-empty packet the caller's buffer
\* is exactly the payload, the packet-identifier prefix consumed, and when a
\* cipher ran the work buffer holds the former ciphertext.
C17_Original ==
    (sent # <<>> /\ dcall.size > 0 /\ dcall.outcome = "SUCCESS") =>
        /\ buf = sent[1].payload
        /\ cipher.defined => work = SentCiphertext

\* C17: on every SUCCESS for a non-empty well-formed packet the caller's
\* buffer is the cleartext behind tag and IV, with the packet-identifier
\* prefix consumed when the anti-replay window is initialized and still in
\* front of the payload when it is not; when a cipher ran the work buffer
\* holds the former ciphertext, and it is untouched when none is configured.
C17_RoundTrip ==
    (sent # <<>> /\ dcall.size > 0 /\ dcall.outcome = "SUCCESS") =>
        /\ buf = IF pid_recv.initialized THEN sent[1].payload
                 ELSE SentPid \o sent[1].payload
        /\ cipher.defined => work = SentCiphertext
        /\ ~cipher.defined => work = <<>>

\* C17 witness: a packet with MAC, cipher and anti-replay was accepted; the
\* caller's buffer is its payload and the work buffer its ciphertext.
C17_Witness ==
    /\ sent # <<>>
    /\ dcall.outcome = "SUCCESS"
    /\ hmac.defined /\ cipher.defined /\ pid_recv.initialized
    /\ sent[1].payload # <<>>
    /\ buf = sent[1].payload
    /\ work = SentCiphertext
    /\ work # buf


----------------------------------------------------------------------------
(* A retransmitting sender and the in-order consumer *)

\* The packet the sender numbered id
SenderPacket(id) == (id % NPackets) + 1

\* The sender transmits id, again and again until a receive of it returned
\* ACK_TO_SENDER; it remembers whether the id was first dropped without flags.
SenderSend(id) ==
    /\ sender[id] \in {"new", "dropped"}
    /\ receive(SenderPacket(id), id)
    /\ sender' = [sender EXCEPT ![id] =
                      IF call'.flags % 2 = ACK_TO_SENDER
                      THEN (IF sender[id] = "dropped" THEN "acked_late"
                            ELSE "acked")
                      ELSE "dropped"]
    /\ UNCHANGED <<monoVars, consVars, decVars, held, script, sent, rt>>

NextLive ==
    (\E id \in Ids : SenderSend(id)) \/ ConsumerNext \/ ConsumerAdvance

\* Each transmission, and each step of the consumer, happens if it stays
\* possible.
FairLive ==
    /\ \A id \in Ids : WF_vars(SenderSend(id))
    /\ WF_vars(ConsumerNext)
    /\ WF_vars(ConsumerAdvance)

SpecLive == Init /\ [][NextLive]_vars /\ FairLive

\* C19: with a sender that retransmits every unacknowledged id and a consumer
\* that takes the head whenever ready() is true, both weakly fair, every id
\* is eventually delivered, an id dropped without flags included, and base
\* advances from every value below the last id.
C19_Progress ==
    /\ \A id \in Ids : <>(delivered > id)
    /\ \A id \in Ids : (sender[id] = "dropped") ~> (delivered > id)
    /\ \A b \in 0..(MaxId - 1) : (base = b) ~> (base = b + 1)

\* C19 witness: every id was delivered, one of them after having been dropped
\* for lying beyond the window and transmitted again.
C19_Witness ==
    /\ delivered = MaxId + 1
    /\ \E id \in Ids : sender[id] = "acked_late"


----------------------------------------------------------------------------
(* RouteListMac *)

MaxStops == 2       \* explicit stop() calls explored on one object

\* Addresses of the model
Addrs == {"10.8.0.1", "192.168.1.1", "203.0.113.7"}

a_255_255_255_255 == "255.255.255.255"
a_0_0_0_0 == "0.0.0.0"
a_128_0_0_0 == "128.0.0.0"

\* get_default_gateway_v4(): a reference to a member of a local object that is
\* gone when the function returns; the copy made from it is any address or
\* no address at all.
get_default_gateway_v4 == Addrs \cup {"indeterminate"}

\* add_del_route(add, net, mask, gw): the /sbin/route command it runs
add_del_route(add, net, mask, gw) ==
    [add |-> add, net |-> net, mask |-> mask, gw |-> gw]

\* add_del_reroute_gw_v4(add) on object r: the three commands, in order
add_del_reroute_gw_v4(r, add) ==
    <<add_del_route(add, r.server_addr, a_255_255_255_255, r.local_gateway),
      add_del_route(add, a_0_0_0_0, a_128_0_0_0, r.route_gateway),
      add_del_route(add, a_128_0_0_0, a_128_0_0_0, r.route_gateway)>>

\* RouteListMac(opt, server_addr_arg): enabled is what the options say of
\* redirect-gateway, gateway_opt their route-gateway ("missing" if the option
\* is absent or malformed, and the constructor throws), lg what
\* get_default_gateway_v4() gave.
RouteListMac(enabled, gateway_opt, server_addr_arg, lg) ==
    LET r == [NoRoute EXCEPT !.life = "alive", !.enabled = enabled,
                             !.server_addr = server_addr_arg,
                             !.local_gateway = lg,
                             !.route_gateway = gateway_opt]
    IN  IF gateway_opt = "missing"
        THEN [NoRoute EXCEPT !.life = "failed", !.enabled = enabled,
                             !.server_addr = server_addr_arg,
                             !.local_gateway = lg]
        ELSE IF enabled
        THEN [r EXCEPT !.cmds = add_del_reroute_gw_v4(r, TRUE),
                       !.did_redirect_gw = TRUE]
        ELSE r

\* stop() that deletes the routes whether or not they were added
stop_unconditional(r) ==
    IF ~r.stopped
    THEN [r EXCEPT !.cmds = @ \o add_del_reroute_gw_v4(r, FALSE),
                   !.did_redirect_gw = FALSE, !.stopped = TRUE]
    ELSE r

\* stop()
stop(r) ==
    IF ~r.stopped
    THEN IF r.did_redirect_gw
         THEN [r EXCEPT !.cmds = @ \o add_del_reroute_gw_v4(r, FALSE),
                        !.did_redirect_gw = FALSE, !.stopped = TRUE]
         ELSE [r EXCEPT !.stopped = TRUE]
    ELSE r

Construct ==
    /\ rt.life = "none"
    /\ \E enabled \in BOOLEAN, gateway_opt \in Addrs \cup {"missing"},
          server_addr_arg \in Addrs, lg \in get_default_gateway_v4 :
          rt' = RouteListMac(enabled, gateway_opt, server_addr_arg, lg)
    /\ UNCHANGED <<winVars, monoVars, consVars, decVars,
                   held, script, sent, sender>>

\* An explicit stop() call; rt.stops counts the stop() calls made so far
DoStop ==
    /\ rt.life = "alive"
    /\ rt.stops < MaxStops
    /\ rt' = [stop(rt) EXCEPT !.stops = @ + 1]
    /\ UNCHANGED <<winVars, monoVars, consVars, decVars,
                   held, script, sent, sender>>

\* ~RouteListMac(): calls stop()
Destroy ==
    /\ rt.life = "alive"
    /\ rt' = [stop(rt) EXCEPT !.stops = @ + 1, !.life = "destroyed"]
    /\ UNCHANGED <<winVars, monoVars, consVars, decVars,
                   held, script, sent, sender>>

InitRoute ==
    /\ init(1)
    /\ NoDecrypt
    /\ NoCalls

NextRoute == Construct \/ DoStop \/ Destroy

SpecRoute == InitRoute /\ [][NextRoute]_vars

\* The add commands and the delete commands issued so far
RouteAdds == SelectSeq(rt.cmds, LAMBDA c : c.add)
RouteDels == SelectSeq(rt.cmds, LAMBDA c : ~c.add)

\* C20: over construction, any number of stop() calls and destruction, the
\* three redirect routes are added iff redirect-gateway is enabled and the
\* constructor completes; they are deleted iff they were added and stop() ran
\* (explicitly or from the destructor), once, the same three routes after the
\* adds; and a stop() after the first changes nothing and issues no command.
C20_RouteLifecycle ==
    /\ [](/\ Len(RouteAdds) =
                IF rt.enabled /\ rt.life \in {"alive", "destroyed"} THEN 3 ELSE 0
          /\ Len(RouteDels) =
                IF rt.stops >= 1 THEN Len(RouteAdds) ELSE 0
          /\ rt.cmds = RouteAdds \o RouteDels
          /\ \A i \in 1..Len(RouteDels) :
                [RouteDels[i] EXCEPT !.add = TRUE] = RouteAdds[i]
          /\ rt.life = "destroyed" => (rt.stopped /\ rt.stops >= 1))
    /\ [][(rt.life = "alive" /\ rt.stops >= 1) =>
              /\ rt'.cmds = rt.cmds
              /\ rt'.stopped = rt.stopped
              /\ rt'.did_redirect_gw = rt.did_redirect_gw
              /\ rt'.stopped]_vars

\* C20 witness: an object with redirect-gateway enabled was stopped MaxStops
\* times and then destroyed, with three adds and three deletes issued in all.
C20_Witness ==
    /\ rt.life = "destroyed"
    /\ rt.enabled
    /\ rt.stops = MaxStops + 1
    /\ Len(RouteAdds) = 3
    /\ Len(RouteDels) = 3

====
